---- MODULE Spec2Model ----
(***************************************************************************)
(* Task store, dependency bookkeeping, checksums and the statistics cache  *)
(* of the task management API (src/src/app.py).                            *)
(*                                                                         *)
(* Conventions.  A Python dict with string keys is a TLA+ record.  A list  *)
(* is a sequence.  None is, for the optional numbers (timestamps, hours),   *)
(* a number below every number a request carries, and the string "<None>"  *)
(* for the optional strings; a JSON null in a body is written the same.    *)
(* A null where a list is declared is NoneList (dependencies) or NoneTags   *)
(* (tags), a list of the same kind holding only the null of its elements.  *)
(* A character is the one-character string of itself when it is printable  *)
(* ASCII or one of \t \n \r \f, and the string "U+XXXX" of its code point  *)
(* (four hexadecimal digits) otherwise.                                    *)
(* datetime.utcnow() is the variable clock, in seconds.  A request body    *)
(* (TaskCreate, TaskUpdate) is a record holding only the fields the        *)
(* caller supplied.  Every handler is a coroutine without a suspension     *)
(* point that another request could run in, so a handler is one step; the  *)
(* specification SpecConc runs the handlers statement by statement under   *)
(* the event loop's scheduling instead.  A tag, and the tags query string, *)
(* is its sequence of characters where the query engine splits and strips  *)
(* it.                                                                     *)
(***************************************************************************)
EXTENDS Integers, Sequences, FiniteSets, TLC

VARIABLES tasks, task_counter, analytics_cache, cache_expiry, clock,
          mutations, response, handlers

vars == <<tasks, task_counter, analytics_cache, cache_expiry, clock,
          mutations, response, handlers>>

(* ------------------------------ bounds -------------------------------- *)

\* most tasks ever created in a run (caps task_counter)
MaxTasks == 3
\* most mutating requests (create, bulk, update, delete) handled in a run
MaxMutations == 3
\* the clock stops advancing here
MaxClock == 60
\* most requests in flight at once
MaxHandlers == 2

(* ------------------------ program constants --------------------------- *)

\* timedelta(seconds=60)
CacheTTL == 60
\* len(tasks_data) > 100
BulkLimit == 100

\* 'Maximum 10 tags allowed'
MaxTags == 10
\* limit: int = Query(100, ge=1, le=1000)
LimitDefault == 100
LimitMax == 1000

None == -1000000
NoneStr == "<None>"
NoneList == <<None>>
NoneTags == << <<NoneStr>> >>

TaskStatus == {"pending", "in_progress", "completed", "blocked", "cancelled"}
TaskPriority == {"low", "medium", "high", "critical"}
TaskCategory == {"development", "testing", "documentation", "deployment",
                 "bugfix", "feature"}

cache_key == "stats_summary"

\* seconds one Tick advances the clock by: half a cache window
TickStep == CacheTTL \div 2

(* ----------------------------- helpers -------------------------------- *)

\* x in list
Contains(s, x) == \E i \in 1..Len(s) : s[i] = x

\* list.remove(x): drops the first occurrence of x only
RECURSIVE list_remove(_, _)
list_remove(s, x) ==
    IF s = <<>> THEN <<>>
    ELSE IF Head(s) = x THEN Tail(s)
    ELSE <<Head(s)>> \o list_remove(Tail(s), x)

\* dict.get(field, default) of a request body
Supplied(body, field, default) ==
    IF field \in DOMAIN body THEN body[field] ELSE default

\* the TaskCreate model: the supplied fields plus the declared defaults
TaskCreate(body) ==
    [title           |-> body.title,
     description     |-> Supplied(body, "description", NoneStr),
     priority        |-> Supplied(body, "priority", "medium"),
     category        |-> body.category,
     assignee        |-> Supplied(body, "assignee", NoneStr),
     estimated_hours |-> Supplied(body, "estimated_hours", None),
     tags            |-> Supplied(body, "tags", <<>>),
     dependencies    |-> Supplied(body, "dependencies", <<>>)]

\* the fields class TaskUpdate declares
TaskUpdateFields ==
    {"title", "description", "status", "priority", "category", "assignee",
     "estimated_hours", "actual_hours", "tags", "dependencies"}

\* the TaskUpdate model parsed from a request body, as
\* model_dump(exclude_unset=True) gives it back: the declared fields the
\* caller supplied; a key the class does not declare is ignored
TaskUpdate_extra_allowed(body) == body
TaskUpdate(body) ==
    [f \in DOMAIN body \cap TaskUpdateFields |-> body[f]]

\* validate_tags of TaskCreate: "if len(v) > 10: raise ValueError"
validate_tags(v) == Len(v) <= MaxTags

\* a str field with Field(min_length=, max_length=); null passes when the
\* field is Optional
str_valid(v, min_length, max_length, optional) ==
    IF v = NoneStr THEN optional
    ELSE min_length <= Len(v) /\ Len(v) <= max_length

\* an enum field: one of the enum's values; null passes when Optional
enum_valid(v, enum, optional) ==
    IF v = NoneStr THEN optional ELSE v \in enum

\* Optional[float] = Field(None, ge=0, le=1000)
hours_valid(v) == v = None \/ (0 <= v /\ v <= 1000)

\* a body the TaskCreate model accepts; a refused body is answered 422
\* before the handler runs.  title and category are required, priority
\* is not Optional, tags and dependencies are lists and not Optional,
\* and only TaskCreate has the tags validator
TaskCreate_valid(body) ==
    /\ "title" \in DOMAIN body
    /\ str_valid(body.title, 3, 200, FALSE)
    /\ "description" \in DOMAIN body =>
           str_valid(body.description, 0, 2000, TRUE)
    /\ "priority" \in DOMAIN body =>
           enum_valid(body.priority, TaskPriority, FALSE)
    /\ "category" \in DOMAIN body
    /\ enum_valid(body.category, TaskCategory, FALSE)
    /\ "assignee" \in DOMAIN body =>
           str_valid(body.assignee, 0, 100, TRUE)
    /\ "estimated_hours" \in DOMAIN body =>
           hours_valid(body.estimated_hours)
    /\ Supplied(body, "tags", <<>>) # NoneTags
    /\ validate_tags(Supplied(body, "tags", <<>>))
    /\ Supplied(body, "dependencies", <<>>) # NoneList

\* a body the TaskUpdate model accepts: every field is Optional, so null
\* passes everywhere (tags and dependencies included, which have no
\* other constraint); a supplied value is held to the field's constraints
\* and a refused body is answered 422 before the handler runs
TaskUpdate_valid(body) ==
    /\ "title" \in DOMAIN body => str_valid(body.title, 3, 200, TRUE)
    /\ "description" \in DOMAIN body =>
           str_valid(body.description, 0, 2000, TRUE)
    /\ "status" \in DOMAIN body =>
           enum_valid(body.status, TaskStatus, TRUE)
    /\ "priority" \in DOMAIN body =>
           enum_valid(body.priority, TaskPriority, TRUE)
    /\ "category" \in DOMAIN body =>
           enum_valid(body.category, TaskCategory, TRUE)
    /\ "assignee" \in DOMAIN body =>
           str_valid(body.assignee, 0, 100, TRUE)
    /\ "estimated_hours" \in DOMAIN body =>
           hours_valid(body.estimated_hours)
    /\ "actual_hours" \in DOMAIN body =>
           hours_valid(body.actual_hours)

\* sha256(json.dumps(task_data, sort_keys=True, default=str))[:16]: the
\* serialisation is of the whole dict, its current 'checksum' entry
\* included; the digest is modelled as injective (no collisions), so the
\* checksum is the serialised dict itself, wrapped so that it differs from
\* the empty string <<>>.
calculate_checksum(task_data) == <<task_data>>

(* ------------------------------ the store ----------------------------- *)

\* tasks[key] = value
dict_set(d, key, value) == (key :> value) @@ d

\* del tasks[key]
dict_del(d, key) == [k \in DOMAIN d \ {key} |-> d[k]]

\* {} and dict.clear()
EmptyDict == [k \in {} |-> 0]

\* task_counter += 1; the new task's id is the counter's new value
new_task_id_from_len(ts, ctr) == Cardinality(DOMAIN ts) + 1
new_task_id(ts, ctr) == ctr + 1

\* the task_dict literal of create_task, before its checksum is filled in
new_task_dict_stamped(id, task_data, now) ==
    [id              |-> id,
     title           |-> task_data.title,
     description     |-> task_data.description,
     status          |-> "pending",
     priority        |-> task_data.priority,
     category        |-> task_data.category,
     assignee        |-> task_data.assignee,
     estimated_hours |-> task_data.estimated_hours,
     actual_hours    |-> None,
     tags            |-> task_data.tags,
     dependencies    |-> task_data.dependencies,
     created_at      |-> now,
     updated_at      |-> now,
     completed_at    |-> None,
     checksum        |-> <<>>]
new_task_dict(id, task_data, now) ==
    [id              |-> id,
     title           |-> task_data.title,
     description     |-> task_data.description,
     status          |-> "pending",
     priority        |-> task_data.priority,
     category        |-> task_data.category,
     assignee        |-> task_data.assignee,
     estimated_hours |-> task_data.estimated_hours,
     actual_hours    |-> None,
     tags            |-> task_data.tags,
     dependencies    |-> task_data.dependencies,
     created_at      |-> now,
     updated_at      |-> None,
     completed_at    |-> None,
     checksum        |-> <<>>]

\* POST /tasks.  The result holds the response (code, body) and the globals
\* as the handler leaves them; raise HTTPException ends the handler there.
create_task_counts_first(ts, ctr, body, now) ==
    LET task_data == TaskCreate(body)
        id        == new_task_id(ts, ctr)
        task_dict == new_task_dict(id, task_data, now)
        stored    == [task_dict EXCEPT !.checksum = calculate_checksum(task_dict)]
    IN  IF \E i \in 1..Len(task_data.dependencies) :
              task_data.dependencies[i] \notin DOMAIN ts
        THEN [code |-> 400, detail |-> "Dependency task not found",
              body |-> <<>>, tasks |-> ts, task_counter |-> id]
        ELSE [code |-> 201, detail |-> "", body |-> <<stored>>,
              tasks |-> dict_set(ts, id, stored), task_counter |-> id]
create_task(ts, ctr, body, now) ==
    LET task_data == TaskCreate(body)
        id        == new_task_id(ts, ctr)
        task_dict == new_task_dict(id, task_data, now)
        stored    == [task_dict EXCEPT !.checksum = calculate_checksum(task_dict)]
    IN  IF \E i \in 1..Len(task_data.dependencies) :
              task_data.dependencies[i] \notin DOMAIN ts
        THEN [code |-> 400, detail |-> "Dependency task not found",
              body |-> <<>>, tasks |-> ts, task_counter |-> ctr]
        ELSE [code |-> 201, detail |-> "", body |-> <<stored>>,
              tasks |-> dict_set(ts, id, stored), task_counter |-> id]

\* GET /tasks/{task_id}
\* class Task, the response_model of the task endpoints: title, status,
\* priority, category, tags and dependencies are required and not
\* Optional, so a stored task holding None in one of them does not
\* validate as a response
Task_valid(task) ==
    /\ task.title # NoneStr
    /\ task.status \in TaskStatus
    /\ task.priority \in TaskPriority
    /\ task.category \in TaskCategory
    /\ task.tags # NoneTags
    /\ task.dependencies # NoneList

\* the framework validates what the handler returned against the
\* response_model after the handler has run: a returned task that does
\* not validate turns the answer into a 500, the handler's writes stay
serialize_response(r) ==
    IF \A i \in 1..Len(r.body) : Task_valid(r.body[i])
    THEN r
    ELSE [r EXCEPT !.code = 500, !.detail = "Internal Server Error",
                   !.body = <<>>]

get_task(ts, task_id) ==
    IF task_id \notin DOMAIN ts
    THEN [code |-> 404, detail |-> "Task not found", body |-> <<>>]
    ELSE serialize_response([code |-> 200, detail |-> "",
                             body |-> <<ts[task_id]>>])

\* "if task_update.status == TaskStatus.completed and not
\* task.get('completed_at')": the first completion stamps completed_at
mark_completion_unstamped(task, update_data, now) == task
mark_completion_always(task, update_data, now) ==
    IF "status" \in DOMAIN update_data /\ update_data.status = "completed"
    THEN [task EXCEPT !.completed_at = now]
    ELSE task
mark_completion(task, update_data, now) ==
    IF /\ "status" \in DOMAIN update_data
       /\ update_data.status = "completed"
       /\ task.completed_at = None
    THEN [task EXCEPT !.completed_at = now]
    ELSE task

\* PUT /tasks/{task_id}; update_data is model_dump(exclude_unset=True)
update_task(ts, task_id, update_data, now) ==
    IF task_id \notin DOMAIN ts
    THEN [code |-> 404, detail |-> "Task not found", body |-> <<>>,
          tasks |-> ts]
    ELSE IF /\ "dependencies" \in DOMAIN update_data
            /\ update_data.dependencies = NoneList
    THEN \* "for dep_id in None": TypeError before any write
         [code |-> 500, detail |-> "Internal Server Error",
          body |-> <<>>, tasks |-> ts]
    ELSE IF /\ "dependencies" \in DOMAIN update_data
            /\ \E i \in 1..Len(update_data.dependencies) :
                  /\ update_data.dependencies[i] \notin DOMAIN ts
                  /\ update_data.dependencies[i] # task_id
    THEN [code |-> 400, detail |-> "Dependency task not found",
          body |-> <<>>, tasks |-> ts]
    ELSE LET task    == ts[task_id]
             set     == [f \in DOMAIN task |->
                           IF f \in DOMAIN update_data
                           THEN update_data[f] ELSE task[f]]
             touched == [set EXCEPT !.updated_at = now]
             marked  == mark_completion(touched, update_data, now)
             summed  == [marked EXCEPT !.checksum = calculate_checksum(marked)]
         IN  serialize_response(
                 [code |-> 200, detail |-> "", body |-> <<summed>>,
                  tasks |-> dict_set(ts, task_id, summed)])

\* analytics_cache.clear() at the end of delete_task
cache_kept_on_delete(cache) == cache
cache_after_delete(cache) == EmptyDict

\* DELETE /tasks/{task_id}.  dependent_tasks is every stored task whose
\* dependencies hold task_id, the task being deleted included; each loses
\* the first occurrence of task_id and gets updated_at, its checksum is
\* left as it was.
delete_task(ts, cache, task_id, now) ==
    IF task_id \notin DOMAIN ts
    THEN [code |-> 404, detail |-> "Task not found", body |-> <<>>,
          tasks |-> ts, analytics_cache |-> cache]
    ELSE LET dependent_tasks ==
                 {k \in DOMAIN ts : Contains(ts[k].dependencies, task_id)}
             pruned == [k \in DOMAIN ts |->
                          IF k \in dependent_tasks
                          THEN [ts[k] EXCEPT
                                  !.dependencies = list_remove(@, task_id),
                                  !.updated_at = now]
                          ELSE ts[k]]
         IN  [code |-> 200, detail |-> "",
              body |-> <<Cardinality(dependent_tasks)>>,
              tasks |-> dict_del(pruned, task_id),
              analytics_cache |-> cache_after_delete(cache)]

\* "if len(tasks_data) > 100" at the head of bulk_create_tasks
bulk_limit_ignored(tasks_data) == FALSE
bulk_limit_exceeded(tasks_data) == Len(tasks_data) > BulkLimit

\* "for task_data in tasks_data: task = await create_task(...);
\* created_tasks.append(task)".  The items are taken in input order, each
\* created in the store its predecessors left; the first item that raises
\* ends the loop.  The sequence is walked by halves (left half, then right
\* half from where the left one ended), which is the same left-to-right
\* loop with a nesting depth TLC can evaluate for 101 items.
RECURSIVE bulk_loop(_, _, _, _)
bulk_loop(ts, ctr, tasks_data, now) ==
    IF tasks_data = <<>>
    THEN [code |-> 200, detail |-> "", body |-> <<>>,
          tasks |-> ts, task_counter |-> ctr]
    ELSE IF Len(tasks_data) = 1
    THEN LET r == create_task(ts, ctr, tasks_data[1], now)
         IN  IF r.code # 201
             THEN r
             ELSE [code |-> 200, detail |-> "", body |-> <<r.body[1].id>>,
                   tasks |-> r.tasks, task_counter |-> r.task_counter]
    ELSE LET half == Len(tasks_data) \div 2
             left == bulk_loop(ts, ctr, SubSeq(tasks_data, 1, half), now)
         IN  IF left.code # 200
             THEN left
             ELSE LET right == bulk_loop(left.tasks, left.task_counter,
                                         SubSeq(tasks_data, half + 1,
                                                Len(tasks_data)), now)
                  IN  IF right.code # 200
                      THEN right
                      ELSE [right EXCEPT !.body = left.body \o right.body]

\* POST /tasks/bulk: the size check, then the loop; an item's HTTPException
\* ends the request, the items before it stay created.  body is task_ids.
bulk_create_tasks_rolled_back(ts, ctr, tasks_data, now) ==
    IF bulk_limit_exceeded(tasks_data)
    THEN [code |-> 400, detail |-> "Maximum 100 tasks per bulk operation",
          body |-> <<>>, tasks |-> ts, task_counter |-> ctr]
    ELSE LET r == bulk_loop(ts, ctr, tasks_data, now)
         IN  IF r.code # 200
             THEN [r EXCEPT !.tasks = ts, !.task_counter = ctr]
             ELSE r
bulk_create_tasks_prevalidated(ts, ctr, tasks_data, now) ==
    IF bulk_limit_exceeded(tasks_data)
    THEN [code |-> 400, detail |-> "Maximum 100 tasks per bulk operation",
          body |-> <<>>, tasks |-> ts, task_counter |-> ctr]
    ELSE IF \E j \in 1..Len(tasks_data) :
               \E i \in 1..Len(TaskCreate(tasks_data[j]).dependencies) :
                   TaskCreate(tasks_data[j]).dependencies[i] \notin DOMAIN ts
    THEN [code |-> 400, detail |-> "Dependency task not found",
          body |-> <<>>, tasks |-> ts, task_counter |-> ctr]
    ELSE bulk_loop(ts, ctr, tasks_data, now)
bulk_create_tasks(ts, ctr, tasks_data, now) ==
    IF bulk_limit_exceeded(tasks_data)
    THEN [code |-> 400, detail |-> "Maximum 100 tasks per bulk operation",
          body |-> <<>>, tasks |-> ts, task_counter |-> ctr]
    ELSE bulk_loop(ts, ctr, tasks_data, now)

(* --------------------------- the statistics --------------------------- *)

RECURSIVE sum_of(_, _, _)
\* sum(ts[k][field] for k in keys)
sum_of(ts, keys, field) ==
    IF keys = {} THEN 0
    ELSE LET k == CHOOSE x \in keys : TRUE
         IN  ts[k][field] + sum_of(ts, keys \ {k}, field)

\* round(n / d, 2) in hundredths, for n, d >= 0 and d > 0 (no quotient of
\* the modelled values lies on a rounding tie)
round2(n, d) == (2 * 100 * n + d) \div (2 * d)

\* stats['by_x'][v] = stats['by_x'].get(v, 0) + 1 over tasks.values()
\* keys maps each task id to the task's grouping key
count_by(keys) ==
    [v \in {keys[k] : k \in DOMAIN keys} |->
        Cardinality({k \in DOMAIN keys : keys[k] = v})]

\* task['assignee'] or 'unassigned'
assignee_key(task) ==
    IF task.assignee = NoneStr \/ task.assignee = ""
    THEN "unassigned" ELSE task.assignee

\* [t[field] for t in tasks.values() if t[field]]: None and 0 are falsy
truthy_hours(ts, field) ==
    {k \in DOMAIN ts : ts[k][field] # None /\ ts[k][field] # 0}

average_hours(ts, field) ==
    LET keys == truthy_hours(ts, field)
    IN  IF keys = {} THEN 0
        ELSE round2(sum_of(ts, keys, field), Cardinality(keys))

\* dict.get(key, 0)
get_or_zero(d, key) == IF key \in DOMAIN d THEN d[key] ELSE 0

\* the stats dict get_task_statistics builds on a cache miss; the rates and
\* averages are in hundredths
compute_statistics(ts) ==
    LET by_status == count_by([k \in DOMAIN ts |-> ts[k].status])
        total     == Cardinality(DOMAIN ts)
    IN  [total       |-> total,
         by_status   |-> by_status,
         by_priority |-> count_by([k \in DOMAIN ts |-> ts[k].priority]),
         by_category |-> count_by([k \in DOMAIN ts |-> ts[k].category]),
         by_assignee |-> count_by([k \in DOMAIN ts |-> assignee_key(ts[k])]),
         completion_rate |->
             IF total > 0
             THEN round2(get_or_zero(by_status, "completed") * 100, total)
             ELSE 0,
         average_estimated_hours |-> average_hours(ts, "estimated_hours"),
         average_actual_hours    |-> average_hours(ts, "actual_hours"),
         overdue_tasks |-> 0,
         blocked_tasks |-> get_or_zero(by_status, "blocked")]

\* the cache check at the head of get_task_statistics
cache_never_hit(cache, expiry, now) == FALSE
cache_hit(cache, expiry, now) ==
    /\ cache_key \in DOMAIN cache
    /\ cache_key \in DOMAIN expiry
    /\ now < expiry[cache_key]

\* GET /tasks/stats/summary
get_task_statistics(ts, cache, expiry, now) ==
    IF cache_hit(cache, expiry, now)
    THEN [code |-> 200, detail |-> "", body |-> <<cache[cache_key]>>,
          analytics_cache |-> cache, cache_expiry |-> expiry]
    ELSE LET stats == compute_statistics(ts)
         IN  [code |-> 200, detail |-> "", body |-> <<stats>>,
              analytics_cache |-> dict_set(cache, cache_key, stats),
              cache_expiry    |-> dict_set(expiry, cache_key, now + CacheTTL)]

(* --------------------------- the query engine ------------------------- *)

\* str.split(sep) of a string given as its sequence of characters
RECURSIVE split(_, _)
split(s, sep) ==
    IF s = <<>> THEN << <<>> >>
    ELSE LET rest == split(Tail(s), sep)
         IN  IF Head(s) = sep
             THEN << <<>> >> \o rest
             ELSE << <<Head(s)>> \o Head(rest) >> \o Tail(rest)

\* the characters str.strip() removes
Whitespace ==
    {" ", "\t", "\n", "\r", "\f", "U+000B", "U+001C", "U+001D", "U+001E",
     "U+001F", "U+0085", "U+00A0", "U+1680", "U+2000", "U+2001", "U+2002",
     "U+2003", "U+2004", "U+2005", "U+2006", "U+2007", "U+2008", "U+2009",
     "U+200A", "U+2028", "U+2029", "U+202F", "U+205F", "U+3000"}

\* str.strip(): drops the leading and the trailing whitespace
RECURSIVE lstrip(_)
lstrip(s) ==
    IF s # <<>> /\ Head(s) \in Whitespace THEN lstrip(Tail(s)) ELSE s

RECURSIVE rstrip(_)
rstrip(s) ==
    IF s # <<>> /\ s[Len(s)] \in Whitespace
    THEN rstrip(SubSeq(s, 1, Len(s) - 1)) ELSE s

strip(s) == rstrip(lstrip(s))

\* list(tasks.values()): the tasks in the dict's insertion order, which is
\* the order of their ids (a new key is always the largest, an update
\* keeps the key's place)
RECURSIVE dict_values(_)
dict_values(ts) ==
    IF DOMAIN ts = {} THEN <<>>
    ELSE LET first == CHOOSE k \in DOMAIN ts : \A x \in DOMAIN ts : k <= x
         IN  <<ts[first]>> \o dict_values(dict_del(ts, first))

\* "if status:" and the like: a query parameter filters when it was
\* supplied and is not the empty string
filter_applies(q, param) == param \in DOMAIN q /\ q[param] # ""

\* tag_list = [t.strip() for t in tags.split(',')]
tag_list(tags) == [i \in 1..Len(split(tags, ",")) |-> strip(split(tags, ",")[i])]

\* any(tag in t['tags'] for tag in tag_list)
any_tag(task, tags) ==
    \E i \in 1..Len(tag_list(tags)) : Contains(task.tags, tag_list(tags)[i])

\* the four filters of get_tasks that come before the tags filter
scalar_matches(task, q) ==
    /\ filter_applies(q, "status")   => task.status = q.status
    /\ filter_applies(q, "priority") => task.priority = q.priority
    /\ filter_applies(q, "category") => task.category = q.category
    /\ filter_applies(q, "assignee") => task.assignee = q.assignee

\* "if tags:": the tags filter is applied
tags_filter_applies(q) == "tags" \in DOMAIN q /\ q.tags # <<>>

\* the five filters of get_tasks, applied one after the other
task_matches(task, q) ==
    /\ scalar_matches(task, q)
    /\ tags_filter_applies(q) => any_tag(task, q.tags)

\* "tag in t['tags']" raises TypeError when t['tags'] is None: the tags
\* filter raises when a task the earlier filters left has no tag list
filter_raises(list, q) ==
    /\ tags_filter_applies(q)
    /\ \E i \in 1..Len(list) :
           scalar_matches(list[i], q) /\ list[i].tags = NoneTags

\* priority_order = {"low": 0, "medium": 1, "high": 2, "critical": 3}
priority_order == [low |-> 0, medium |-> 1, high |-> 2, critical |-> 3]

\* the order of the status strings under str comparison
status_order ==
    [blocked |-> 0, cancelled |-> 1, completed |-> 2, in_progress |-> 3,
     pending |-> 4]

\* x.get(sort_by, "") is None: the field is stored with the value None
key_is_none(task, sort_by) ==
    IF sort_by = "priority" THEN FALSE
    ELSE IF sort_by = "status" THEN task.status = NoneStr
    ELSE task[sort_by] = None

\* the sort key of a task, as a number (None for a None key, which only
\* a list of one task can hold without raising)
sort_key(task, sort_by) ==
    IF key_is_none(task, sort_by) THEN None
    ELSE IF sort_by = "priority"
    THEN IF task.priority \in DOMAIN priority_order
         THEN priority_order[task.priority] ELSE 0
    ELSE IF sort_by = "status" THEN status_order[task.status]
    ELSE task[sort_by]

\* list.sort compares every element of a list of two or more with some
\* other element, and "<" between None and anything raises TypeError
sort_raises(list, sort_by) ==
    /\ Len(list) >= 2
    /\ \E i \in 1..Len(list) : key_is_none(list[i], sort_by)

\* list.sort(key=..., reverse=reverse): stable in both directions, equal
\* keys keep their relative order
list_sort(list, sort_by, reverse) ==
    LET n == Len(list)
        key(i) == sort_key(list[i], sort_by)
        before(j, i) ==
            \/ IF reverse THEN key(j) > key(i) ELSE key(j) < key(i)
            \/ key(j) = key(i) /\ j < i
        rank(i) == Cardinality({j \in 1..n : before(j, i)})
    IN  [p \in 1..n |-> list[CHOOSE i \in 1..n : rank(i) = p - 1]]

\* list[offset:offset + limit]
list_slice(list, offset, limit) ==
    SubSeq(list, offset + 1,
           IF offset + limit < Len(list) THEN offset + limit ELSE Len(list))

\* the Query(...) declarations of get_tasks: a parameter outside its
\* pattern or range is refused before the handler runs
query_valid(q) ==
    /\ "status" \in DOMAIN q => q.status \in TaskStatus
    /\ "priority" \in DOMAIN q => q.priority \in TaskPriority
    /\ "category" \in DOMAIN q => q.category \in TaskCategory
    /\ Supplied(q, "sort_by", "created_at")
           \in {"created_at", "priority", "status", "updated_at"}
    /\ Supplied(q, "order", "desc") \in {"asc", "desc"}
    /\ Supplied(q, "limit", LimitDefault) \in 1..LimitMax
    /\ Supplied(q, "offset", 0) >= 0

\* GET /tasks.  q holds the query parameters the caller supplied.
get_tasks(ts, q) ==
    IF ~query_valid(q)
    THEN [code |-> 422, detail |-> "Unprocessable Entity", body |-> <<>>]
    ELSE LET sort_by  == Supplied(q, "sort_by", "created_at")
             reverse  == Supplied(q, "order", "desc") = "desc"
             limit    == Supplied(q, "limit", LimitDefault)
             offset   == Supplied(q, "offset", 0)
             Matches(t) == task_matches(t, q)
             filtered_tasks == SelectSeq(dict_values(ts), Matches)
         IN  IF filter_raises(dict_values(ts), q)
             THEN [code |-> 500, detail |-> "Internal Server Error",
                   body |-> <<>>]
             ELSE IF sort_raises(filtered_tasks, sort_by)
             THEN [code |-> 500, detail |-> "Internal Server Error",
                   body |-> <<>>]
             ELSE serialize_response(
                      [code |-> 200, detail |-> "",
                       body |-> list_slice(list_sort(filtered_tasks, sort_by,
                                                     reverse),
                                           offset, limit)])

\* json.dumps(tasks) without default=: a datetime value in any task
\* raises TypeError, and created_at is always a datetime
json_dumps_raises(ts) ==
    \E k \in DOMAIN ts :
        \/ ts[k].created_at # None
        \/ ts[k].updated_at # None
        \/ ts[k].completed_at # None

\* GET /health (the uptime, the timestamp and the memory estimate are
\* left out of the body)
health_check(ts) ==
    IF json_dumps_raises(ts)
    THEN [code |-> 500, detail |-> "Internal Server Error", body |-> <<>>]
    ELSE [code |-> 200, detail |-> "",
          body |-> <<[status |-> "healthy", version |-> "2.0.0",
                      total_tasks |-> Cardinality(DOMAIN ts)]>>]

(* ------------------------------ requests ------------------------------ *)

\* request bodies of POST /tasks: the fields the caller supplied
CreateBodies ==
    {[title |-> "Task", category |-> "development"],
     [title |-> "Task", category |-> "testing", priority |-> "high",
      dependencies |-> <<1>>],
     [title |-> "Task", category |-> "testing", estimated_hours |-> 2,
      dependencies |-> <<1, 1>>],
     [title |-> "Task", category |-> "bugfix", dependencies |-> <<2>>]}

\* request bodies of PUT /tasks/{task_id}; the last one also carries keys
\* that TaskUpdate does not declare
UpdateBodies ==
    {[status |-> "completed"],
     [status |-> "in_progress"],
     [status |-> NoneStr],
     [dependencies |-> <<1>>],
     [dependencies |-> <<2, 1>>],
     [title |-> "Renamed", actual_hours |-> 3, id |-> 0,
      created_at |-> None]}

\* path parameters: the ids the store may hold
TaskIds == 1..MaxTasks

\* request bodies of POST /tasks/bulk, one of them over the limit
BulkBodies ==
    {<<[title |-> "Task", category |-> "feature"],
       [title |-> "Task", category |-> "feature", dependencies |-> <<1>>]>>,
     <<[title |-> "Task", category |-> "feature"],
       [title |-> "Task", category |-> "feature", dependencies |-> <<3>>]>>,
     [i \in 1..(BulkLimit + 1) |-> [title |-> "Task", category |-> "feature"]]}

(* ------------------------------- actions ------------------------------ *)

\* what the caller receives: the status code, the error detail, the body
respond(op, r) ==
    [op |-> op, code |-> r.code, detail |-> r.detail, body |-> r.body]

\* the 422 answer to a request body the model class refuses
unprocessable(ts, ctr) ==
    [code |-> 422, detail |-> "Unprocessable Entity", body |-> <<>>,
     tasks |-> ts, task_counter |-> ctr]

\* the requests the server is handling at once
Slots == 1..MaxHandlers

\* a slot with no request in it
Idle ==
    [op |-> "idle", pc |-> "start", task_id |-> 0, body |-> EmptyDict,
     todo |-> <<>>, local |-> <<>>, dirty |-> FALSE, out |-> <<>>]

Init ==
    /\ tasks = EmptyDict
    /\ task_counter = 0
    /\ analytics_cache = EmptyDict
    /\ cache_expiry = EmptyDict
    /\ clock = 0
    /\ mutations = 0
    /\ response = [op |-> "none", code |-> 0, detail |-> "", body |-> <<>>]
    /\ handlers = [s \in Slots |-> Idle]

\* time passes between requests
Tick ==
    /\ UNCHANGED handlers
    /\ clock + TickStep <= MaxClock
    /\ clock' = clock + TickStep
    /\ UNCHANGED <<tasks, task_counter, analytics_cache, cache_expiry,
                   mutations, response>>

CreateTask(body) ==
    /\ UNCHANGED handlers
    /\ mutations < MaxMutations
    /\ task_counter < MaxTasks
    /\ LET r == IF TaskCreate_valid(body)
                THEN create_task(tasks, task_counter, body, clock)
                ELSE unprocessable(tasks, task_counter)
       IN  /\ tasks' = r.tasks
           /\ task_counter' = r.task_counter
           /\ response' = respond("create", r)
    /\ mutations' = mutations + 1
    /\ UNCHANGED <<analytics_cache, cache_expiry, clock>>

BulkCreateTasks(tasks_data) ==
    /\ UNCHANGED handlers
    /\ mutations < MaxMutations
    /\ Len(tasks_data) > BulkLimit \/ task_counter + Len(tasks_data) <= MaxTasks
    /\ LET r == IF \A i \in 1..Len(tasks_data) :
                       TaskCreate_valid(tasks_data[i])
                THEN bulk_create_tasks(tasks, task_counter, tasks_data, clock)
                ELSE unprocessable(tasks, task_counter)
       IN  /\ tasks' = r.tasks
           /\ task_counter' = r.task_counter
           /\ response' = respond("bulk", r)
    /\ mutations' = mutations + 1
    /\ UNCHANGED <<analytics_cache, cache_expiry, clock>>

GetTask(task_id) ==
    /\ UNCHANGED handlers
    /\ LET r == get_task(tasks, task_id)
       IN  response' = respond("get", r)
    /\ UNCHANGED <<tasks, task_counter, analytics_cache, cache_expiry, clock,
                   mutations>>

UpdateTask(task_id, update_data) ==
    /\ UNCHANGED handlers
    /\ mutations < MaxMutations
    /\ LET r == IF TaskUpdate_valid(update_data)
                THEN update_task(tasks, task_id, TaskUpdate(update_data),
                                 clock)
                ELSE unprocessable(tasks, task_counter)
       IN  /\ tasks' = r.tasks
           /\ response' = respond("update", r)
    /\ mutations' = mutations + 1
    /\ UNCHANGED <<task_counter, analytics_cache, cache_expiry, clock>>

DeleteTask(task_id) ==
    /\ UNCHANGED handlers
    /\ mutations < MaxMutations
    /\ LET r == delete_task(tasks, analytics_cache, task_id, clock)
       IN  /\ tasks' = r.tasks
           /\ analytics_cache' = r.analytics_cache
           /\ response' = respond("delete", r)
    /\ mutations' = mutations + 1
    /\ UNCHANGED <<task_counter, cache_expiry, clock>>

GetTaskStatistics ==
    /\ UNCHANGED handlers
    /\ LET r == get_task_statistics(tasks, analytics_cache, cache_expiry, clock)
       IN  /\ analytics_cache' = r.analytics_cache
           /\ cache_expiry' = r.cache_expiry
           /\ response' = respond("stats", r)
    /\ UNCHANGED <<tasks, task_counter, clock, mutations>>

\* the store's requests, at any times
Next ==
    \/ Tick
    \/ \E body \in CreateBodies : CreateTask(body)
    \/ \E tasks_data \in BulkBodies : BulkCreateTasks(tasks_data)
    \/ \E task_id \in TaskIds : GetTask(task_id)
    \/ \E task_id \in TaskIds, update_data \in UpdateBodies :
          UpdateTask(task_id, update_data)
    \/ \E task_id \in TaskIds : DeleteTask(task_id)

Spec == Init /\ [][Next]_vars

\* request bodies of the statistics scenarios: creates and updates that
\* succeed, and ones whose dependency is missing
CacheCreateBodies ==
    {[title |-> "Task", category |-> "development"],
     [title |-> "Task", category |-> "bugfix", dependencies |-> <<2>>]}

CacheUpdateBodies ==
    {[status |-> "completed"],
     [dependencies |-> <<3>>]}

\* mutations interleaved with GET /tasks/stats/summary
NextCache ==
    \/ Tick
    \/ \E body \in CacheCreateBodies : CreateTask(body)
    \/ \E task_id \in TaskIds, update_data \in CacheUpdateBodies :
          UpdateTask(task_id, update_data)
    \/ \E task_id \in TaskIds : DeleteTask(task_id)
    \/ GetTaskStatistics

SpecCache == Init /\ [][NextCache]_vars

ListTasks(q) ==
    /\ UNCHANGED handlers
    /\ LET r == get_tasks(tasks, q)
       IN  response' = respond("list", r)
    /\ UNCHANGED <<tasks, task_counter, analytics_cache, cache_expiry, clock,
                   mutations>>

HealthCheck ==
    /\ UNCHANGED handlers
    /\ LET r == health_check(tasks)
       IN  response' = respond("health", r)
    /\ UNCHANGED <<tasks, task_counter, analytics_cache, cache_expiry, clock,
                   mutations>>

\* a tags list one longer than validate_tags allows
TooManyTags == [i \in 1..(MaxTags + 1) |-> <<"t">>]

\* request bodies of the query scenarios; a tag is its sequence of
\* characters ("ui", "api")
QueryCreateBodies ==
    {[title |-> "Task", category |-> "development", assignee |-> "alice",
      tags |-> << <<"u", "i">> >>, estimated_hours |-> 0],
     [title |-> "Task", category |-> "testing", priority |-> "high",
      assignee |-> "", tags |-> << <<"a", "p", "i">>, <<"u", "i">> >>,
      estimated_hours |-> 2],
     [title |-> "Task", category |-> "testing", tags |-> TooManyTags]}

QueryUpdateBodies ==
    {[status |-> "completed"],
     [status |-> NoneStr],
     [status |-> "bogus"],
     [priority |-> NoneStr],
     [tags |-> NoneTags],
     [dependencies |-> NoneList],
     [tags |-> TooManyTags]}

\* query strings of GET /tasks: the parameters the caller supplied; tags
\* is the comma-separated string, as its sequence of characters
ListQueries ==
    {EmptyDict,
     [status |-> "pending"],
     [assignee |-> "alice", sort_by |-> "priority", order |-> "asc"],
     [assignee |-> ""],
     [tags |-> <<"a", "p", "i", ",", " ", "u", "i">>],
     [tags |-> <<"a", "p", "i">>, category |-> "testing",
      priority |-> "high", sort_by |-> "status"],
     [sort_by |-> "updated_at", order |-> "asc"],
     [sort_by |-> "updated_at"],
     [sort_by |-> "priority", limit |-> 1, offset |-> 1],
     [offset |-> MaxTasks + 1],
     [limit |-> 0]}

\* mutations interleaved with GET /tasks, GET /health and the statistics
NextQuery ==
    \/ Tick
    \/ \E body \in QueryCreateBodies : CreateTask(body)
    \/ \E task_id \in TaskIds, update_data \in QueryUpdateBodies :
          UpdateTask(task_id, update_data)
    \/ \E task_id \in TaskIds : DeleteTask(task_id)
    \/ \E q \in ListQueries : ListTasks(q)
    \/ HealthCheck
    \/ GetTaskStatistics

SpecQuery == Init /\ [][NextQuery]_vars

(* ------------------- the handlers, statement by statement ------------- *)

\* Whether a coroutine gives the event loop back before its statement at
\* pc.  The handlers are "async def" and run on the event loop; none of
\* their statements awaits anything that suspends ("await create_task(...)"
\* in bulk_create_tasks runs a coroutine that never suspends), so a
\* handler, once entered, runs to its end.
yields_everywhere(op, pc) == TRUE
yields(op, pc) == FALSE

\* the event loop may run the next statement of the request in slot s: no
\* other request is between its entry and its end, unless suspended there
Runnable(s) ==
    /\ handlers[s].op # "idle"
    /\ \A o \in Slots \ {s} :
           \/ handlers[o].op = "idle"
           \/ handlers[o].pc = "start"
           \/ yields(handlers[o].op, handlers[o].pc)

\* update_data.items(): the supplied fields in the order TaskUpdate
\* declares them
TaskUpdateOrder ==
    <<"title", "description", "status", "priority", "category", "assignee",
      "estimated_hours", "actual_hours", "tags", "dependencies">>

update_items(update_data) ==
    LET Supplied_(f) == f \in DOMAIN update_data
    IN  SelectSeq(TaskUpdateOrder, Supplied_)

\* the items the Creates in flight have still to store
PendingItems ==
    sum_of([o \in Slots |->
               [n |-> IF handlers[o].op \in {"create", "bulk"}
                      THEN Len(handlers[o].todo) ELSE 0]],
           Slots, "n")

\* the body of the request validates against the handler's model
request_valid(request) ==
    IF request.op = "create" THEN TaskCreate_valid(request.body)
    ELSE IF request.op = "bulk"
    THEN \A i \in 1..Len(request.items) : TaskCreate_valid(request.items[i])
    ELSE IF request.op = "update" THEN TaskUpdate_valid(request.body)
    ELSE TRUE

\* a request is received: its handler is ready to be entered, or its body
\* is refused and answered 422 without the handler being entered
Dispatch(s, request) ==
    /\ handlers[s].op = "idle"
    /\ request.op \in {"create", "bulk", "update", "delete"} =>
           mutations < MaxMutations
    /\ request.op = "create" => task_counter + PendingItems < MaxTasks
    /\ request.op = "bulk" =>
           task_counter + PendingItems + Len(request.items) <= MaxTasks
    /\ mutations' = IF request.op \in {"get", "list"}
                    THEN mutations ELSE mutations + 1
    /\ IF request_valid(request)
       THEN /\ handlers' =
                [handlers EXCEPT ![s] =
                    [Idle EXCEPT
                        !.op = request.op,
                        !.task_id = request.task_id,
                        !.body = IF request.op = "update"
                                 THEN TaskUpdate(request.body)
                                 ELSE request.body,
                        !.todo = IF request.op = "create"
                                 THEN <<request.body>>
                                 ELSE IF request.op = "bulk"
                                 THEN request.items
                                 ELSE IF request.op = "update"
                                 THEN update_items(TaskUpdate(request.body))
                                 ELSE <<>>]]
            /\ UNCHANGED response
       ELSE /\ response' = respond(request.op,
                                   unprocessable(tasks, task_counter))
            /\ UNCHANGED handlers
    /\ UNCHANGED <<tasks, task_counter, analytics_cache, cache_expiry, clock>>

\* the handler in slot s returns or raises: the response goes out
Finish(s, code, detail, body) ==
    /\ handlers' = [handlers EXCEPT ![s] = Idle]
    /\ response' = [op |-> handlers[s].op, code |-> code, detail |-> detail,
                    body |-> body]

\* the handler in slot s goes on to the statement at pc
Goto(s, frame, pc) ==
    /\ handlers' = [handlers EXCEPT ![s] = [frame EXCEPT !.pc = pc]]
    /\ UNCHANGED response

\* create_task, and bulk_create_tasks around it: the size check, then per
\* item the dependency validation, "task_counter += 1", the task_dict
\* literal with its checksum, "tasks[task_counter] = task_dict" (both read
\* the global counter as it is at that statement), then the append
StepCreate(s) ==
    LET f         == handlers[s]
        task_data == TaskCreate(Head(f.todo))
    IN  /\ Runnable(s)
        /\ f.op \in {"create", "bulk"}
        /\ UNCHANGED <<analytics_cache, cache_expiry, clock, mutations>>
        /\ \/ /\ f.op = "bulk" /\ f.pc = "start"
              /\ IF bulk_limit_exceeded(f.todo)
                 THEN Finish(s, 400, "Maximum 100 tasks per bulk operation",
                             <<>>)
                 ELSE IF f.todo = <<>>
                 THEN Finish(s, 200, "", <<>>)
                 ELSE Goto(s, f, "validate")
              /\ UNCHANGED <<tasks, task_counter>>
           \/ /\ (f.op = "create" /\ f.pc = "start") \/ f.pc = "validate"
              /\ IF \E i \in 1..Len(task_data.dependencies) :
                        task_data.dependencies[i] \notin DOMAIN tasks
                 THEN Finish(s, 400, "Dependency task not found", <<>>)
                 ELSE Goto(s, f, "count")
              /\ UNCHANGED <<tasks, task_counter>>
           \/ /\ f.pc = "count"
              /\ task_counter' = new_task_id(tasks, task_counter)
              /\ Goto(s, f, "build")
              /\ UNCHANGED tasks
           \/ /\ f.pc = "build"
              /\ LET task_dict == new_task_dict(task_counter, task_data, clock)
                 IN  Goto(s, [f EXCEPT !.local =
                                 [task_dict EXCEPT !.checksum =
                                     calculate_checksum(task_dict)]],
                          "store")
              /\ UNCHANGED <<tasks, task_counter>>
           \/ /\ f.pc = "store"
              /\ tasks' = dict_set(tasks, task_counter, f.local)
              /\ IF f.op = "create"
                 THEN Finish(s, 201, "", <<f.local>>)
                 ELSE IF Tail(f.todo) = <<>>
                 THEN Finish(s, 200, "", Append(f.out, f.local.id))
                 ELSE Goto(s, [f EXCEPT !.todo = Tail(@),
                                        !.out = Append(@, f.local.id),
                                        !.local = <<>>],
                          "validate")
              /\ UNCHANGED task_counter

\* update_task: the checks, "task[field] = value" per supplied field,
\* updated_at, completed_at, checksum.  task is the dict object the store
\* held at entry; f.local keeps it for a handler whose task was deleted
\* under it.
StepUpdate(s) ==
    LET f   == handlers[s]
        id  == f.task_id
        obj == IF id \in DOMAIN tasks THEN tasks[id] ELSE f.local
        Write(o, pc) ==
            /\ tasks' = IF id \in DOMAIN tasks
                        THEN dict_set(tasks, id, o) ELSE tasks
            /\ Goto(s, [f EXCEPT !.local = o, !.dirty = TRUE,
                                 !.todo = IF f.pc = "assign"
                                          THEN Tail(@) ELSE @],
                    pc)
    IN  /\ Runnable(s)
        /\ f.op = "update"
        /\ UNCHANGED <<task_counter, analytics_cache, cache_expiry, clock,
                       mutations>>
        /\ \/ /\ f.pc = "start"
              /\ IF id \notin DOMAIN tasks
                 THEN Finish(s, 404, "Task not found", <<>>)
                 ELSE IF /\ "dependencies" \in DOMAIN f.body
                         /\ f.body.dependencies = NoneList
                 THEN Finish(s, 500, "Internal Server Error", <<>>)
                 ELSE IF /\ "dependencies" \in DOMAIN f.body
                         /\ \E i \in 1..Len(f.body.dependencies) :
                               /\ f.body.dependencies[i] \notin DOMAIN tasks
                               /\ f.body.dependencies[i] # id
                 THEN Finish(s, 400, "Dependency task not found", <<>>)
                 ELSE Goto(s, [f EXCEPT !.local = tasks[id]],
                           IF f.todo = <<>> THEN "touch" ELSE "assign")
              /\ UNCHANGED tasks
           \/ /\ f.pc = "assign"
              /\ Write([obj EXCEPT ![Head(f.todo)] = f.body[Head(f.todo)]],
                       IF Tail(f.todo) = <<>> THEN "touch" ELSE "assign")
           \/ /\ f.pc = "touch"
              /\ Write([obj EXCEPT !.updated_at = clock], "complete")
           \/ /\ f.pc = "complete"
              /\ Write(mark_completion(obj, f.body, clock), "checksum")
           \/ /\ f.pc = "checksum"
              /\ LET summed == [obj EXCEPT !.checksum =
                                    calculate_checksum(obj)]
                 IN  /\ tasks' = IF id \in DOMAIN tasks
                                 THEN dict_set(tasks, id, summed) ELSE tasks
                     /\ LET r == serialize_response(
                                     [code |-> 200, detail |-> "",
                                      body |-> <<summed>>])
                        IN  Finish(s, r.code, r.detail, r.body)

\* delete_task: the check, the pruning of the dependents, "del
\* tasks[task_id]" (a KeyError when the key is gone), the cache clear
StepDelete(s) ==
    LET f  == handlers[s]
        id == f.task_id
        dependent_tasks ==
            {k \in DOMAIN tasks : Contains(tasks[k].dependencies, id)}
    IN  /\ Runnable(s)
        /\ f.op = "delete"
        /\ UNCHANGED <<task_counter, cache_expiry, clock, mutations>>
        /\ \/ /\ f.pc = "start"
              /\ IF id \notin DOMAIN tasks
                 THEN Finish(s, 404, "Task not found", <<>>)
                 ELSE Goto(s, f, "prune")
              /\ UNCHANGED <<tasks, analytics_cache>>
           \/ /\ f.pc = "prune"
              /\ tasks' = [k \in DOMAIN tasks |->
                              IF k \in dependent_tasks
                              THEN [tasks[k] EXCEPT
                                      !.dependencies = list_remove(@, id),
                                      !.updated_at = clock]
                              ELSE tasks[k]]
              /\ Goto(s, [f EXCEPT !.local = <<Cardinality(dependent_tasks)>>,
                                   !.dirty = dependent_tasks # {}],
                      "remove")
              /\ UNCHANGED analytics_cache
           \/ /\ f.pc = "remove"
              /\ IF id \notin DOMAIN tasks
                 THEN /\ Finish(s, 500, "Internal Server Error", <<>>)
                      /\ UNCHANGED tasks
                 ELSE /\ tasks' = dict_del(tasks, id)
                      /\ Goto(s, [f EXCEPT !.dirty = TRUE], "clear")
              /\ UNCHANGED analytics_cache
           \/ /\ f.pc = "clear"
              /\ analytics_cache' = cache_after_delete(analytics_cache)
              /\ Finish(s, 200, "", f.local)
              /\ UNCHANGED tasks

\* get_task and get_tasks: a read of the store as it is
StepRead(s) ==
    LET f == handlers[s]
        r == IF f.op = "get" THEN get_task(tasks, f.task_id)
             ELSE get_tasks(tasks, f.body)
    IN  /\ Runnable(s)
        /\ f.op \in {"get", "list"}
        /\ Finish(s, r.code, r.detail, r.body)
        /\ UNCHANGED <<tasks, task_counter, analytics_cache, cache_expiry,
                       clock, mutations>>

\* the requests of the concurrent scenarios
ConcRequests ==
    {[op |-> "create", task_id |-> 0, items |-> <<>>,
      body |-> [title |-> "Task", category |-> "development"]],
     [op |-> "create", task_id |-> 0, items |-> <<>>,
      body |-> [title |-> "ab", category |-> "development"]],
     [op |-> "bulk", task_id |-> 0, body |-> EmptyDict,
      items |-> <<[title |-> "Task", category |-> "feature"],
                  [title |-> "Task", category |-> "feature",
                   dependencies |-> <<1>>]>>],
     [op |-> "update", task_id |-> 1, items |-> <<>>,
      body |-> [title |-> "Renamed", status |-> "completed"]],
     [op |-> "update", task_id |-> 1, items |-> <<>>,
      body |-> [dependencies |-> NoneList]],
     [op |-> "delete", task_id |-> 1, items |-> <<>>, body |-> EmptyDict],
     [op |-> "get", task_id |-> 1, items |-> <<>>, body |-> EmptyDict],
     [op |-> "list", task_id |-> 0, items |-> <<>>,
      body |-> [sort_by |-> "priority"]]}

\* requests arrive at any time; the event loop runs the handlers
NextConc ==
    \/ \E s \in Slots, request \in ConcRequests : Dispatch(s, request)
    \/ \E s \in Slots : StepCreate(s)
    \/ \E s \in Slots : StepUpdate(s)
    \/ \E s \in Slots : StepDelete(s)
    \/ \E s \in Slots : StepRead(s)

SpecConc == Init /\ [][NextConc]_vars

(* ------------------------------- claims ------------------------------- *)

\* the ids of the stored tasks, other than self, whose dependencies hold id
OtherDependents(id) ==
    {k \in DOMAIN tasks \ {id} : Contains(tasks[k].dependencies, id)}

\* some id was issued and is no longer stored: a Delete has succeeded
SomeDeleted == \E id \in 1..task_counter : id \notin DOMAIN tasks

\* C1: dependency integrity.  Every id in any stored task's dependencies,
\* duplicates included, is the id of a stored task.
C1_DependencyIntegrity ==
    \A k \in DOMAIN tasks :
        \A i \in 1..Len(tasks[k].dependencies) :
            tasks[k].dependencies[i] \in DOMAIN tasks

\* C2: ids start at 1, every successful Create returns an id greater than
\* every id issued before (all of which are at most task_counter), and an
\* id that was issued and deleted answers NotFound in every later state.
C2_IdsNeverReused ==
    /\ [](\A id \in DOMAIN tasks : 1 <= id /\ id <= task_counter)
    /\ [][/\ task_counter' >= task_counter
          /\ \A id \in DOMAIN tasks' \ DOMAIN tasks : id > task_counter
          /\ \A body \in CreateBodies :
                /\ response'.op = "create" /\ response'.code = 201
                /\ CreateTask(body)
                =>  /\ response'.body[1].id > task_counter
                    /\ task_counter = 0 => response'.body[1].id = 1
                    /\ get_task(tasks', response'.body[1].id).code = 200
          /\ \A id \in 1..task_counter :
                get_task(tasks, id).code = 404 =>
                    get_task(tasks', id).code = 404]_vars

\* C2 witness: a Create has just succeeded after a lower id was deleted.
C2_Witness ==
    /\ response.op = "create" /\ response.code = 201
    /\ \E id \in 1..(response.body[1].id - 1) : id \notin DOMAIN tasks

\* C3: checksum consistency.  Each stored task's checksum is the digest of
\* a serialisation whose non-checksum entries are the task's current
\* values (whatever the serialised dict held as its checksum entry).
C3_ChecksumConsistent ==
    \A k \in DOMAIN tasks :
        /\ Len(tasks[k].checksum) = 1
        /\ [tasks[k].checksum[1] EXCEPT !.checksum = <<>>]
               = [tasks[k] EXCEPT !.checksum = <<>>]

\* C4: completed_at is set exactly once.  It is null on creation, the
\* first successful Update supplying status completed sets it (to now),
\* nothing else sets it, and once set no step changes or clears it.
C4_CompletedAtSetOnce ==
    [][/\ \A id \in DOMAIN tasks' \ DOMAIN tasks :
              tasks'[id].completed_at = None
       /\ \A id \in DOMAIN tasks \cap DOMAIN tasks' :
              /\ tasks[id].completed_at # None =>
                     tasks'[id].completed_at = tasks[id].completed_at
              /\ tasks[id].completed_at = None /\ tasks'[id].completed_at # None =>
                     /\ \E update_data \in UpdateBodies :
                            /\ UpdateTask(id, update_data)
                            /\ "status" \in DOMAIN update_data
                            /\ update_data.status = "completed"
                     /\ tasks'[id].completed_at = clock
              /\ \A update_data \in UpdateBodies :
                     /\ response'.op = "update" /\ response'.code = 200
                     /\ "status" \in DOMAIN update_data
                     /\ update_data.status = "completed"
                     /\ UpdateTask(id, update_data)
                     => tasks'[id].completed_at # None]_vars

\* C4 witness: a completed task was updated again at a later time.
C4_Witness ==
    /\ response.op = "update" /\ response.code = 200
    /\ response.body[1].completed_at # None
    /\ response.body[1].updated_at > response.body[1].completed_at

\* C5: every successful Create stores and returns a task with status
\* pending, completed_at, actual_hours and updated_at null, and the
\* caller's priority (medium when omitted).
C5_CreateDefaults ==
    [][\A body \in CreateBodies :
          /\ response'.op = "create" /\ response'.code = 201
          /\ CreateTask(body)
          =>
              LET t == response'.body[1]
              IN  /\ t.id \in DOMAIN tasks' /\ tasks'[t.id] = t
                  /\ t.status = "pending"
                  /\ t.completed_at = None
                  /\ t.actual_hours = None
                  /\ t.updated_at = None
                  /\ t.priority = IF "priority" \in DOMAIN body
                                  THEN body.priority ELSE "medium"]_vars

\* C5 witness: a Create that supplied a priority succeeded in a store that
\* already held tasks, one of them updated.
C5_Witness ==
    /\ response.op = "create" /\ response.code = 201
    /\ response.body[1].priority = "high"
    /\ \E k \in DOMAIN tasks : tasks[k].updated_at # None

\* C6: a failed Create (dependency missing), Update (NotFound or invalid
\* dependency) or Delete (NotFound) leaves the stored tasks, the id
\* counter and the aggregation cache as they were.
C6_FailedOperationsChangeNothing ==
    [][/\ \A body \in CacheCreateBodies :
              CreateTask(body) /\ response'.code = 400 =>
                  UNCHANGED <<tasks, task_counter, analytics_cache, cache_expiry>>
       /\ \A task_id \in TaskIds, update_data \in CacheUpdateBodies :
              UpdateTask(task_id, update_data) /\ response'.code \in {400, 404} =>
                  UNCHANGED <<tasks, task_counter, analytics_cache, cache_expiry>>
       /\ \A task_id \in TaskIds :
              DeleteTask(task_id) /\ response'.code = 404 =>
                  UNCHANGED <<tasks, task_counter, analytics_cache, cache_expiry>>
      ]_vars

\* C6 witness: a Create failed on a missing dependency while the store
\* held a task and the cache held an entry.
C6_Witness ==
    /\ response.op = "create" /\ response.code = 400
    /\ response.detail = "Dependency task not found"
    /\ tasks # EmptyDict
    /\ cache_key \in DOMAIN analytics_cache

\* C7: a successful Delete returns the number of other stored tasks whose
\* dependencies held the id, and each of those has updated_at set to now.
C7_DeleteCountsOtherDependents ==
    [][\A task_id \in TaskIds :
          DeleteTask(task_id) /\ response'.code = 200 =>
              /\ response'.body[1] = Cardinality(OtherDependents(task_id))
              /\ \A k \in OtherDependents(task_id) :
                     tasks'[k].updated_at = clock]_vars

\* C8: a statistics request inside the cached entry's window, with no
\* Delete since the entry was computed (the entry is still held), returns
\* exactly the cached result and leaves the entry and its expiry alone.
C8_CachedStatsServedInWindow ==
    [][/\ GetTaskStatistics
       /\ cache_key \in DOMAIN analytics_cache
       /\ cache_key \in DOMAIN cache_expiry
       /\ clock < cache_expiry[cache_key]
       => /\ response'.body = <<analytics_cache[cache_key]>>
          /\ UNCHANGED <<analytics_cache, cache_expiry>>]_vars

\* C8 witness: statistics were served that no longer match the store.
C8_Witness ==
    /\ response.op = "stats"
    /\ response.body[1].total # Cardinality(DOMAIN tasks)
    /\ ~SomeDeleted

\* C9: a successful Delete empties the cache; a statistics request with
\* no entry held, or at or after the entry's expiry, recomputes from the
\* current store, caches the result and starts a new 60-second window.
C9_RecomputeAfterDeleteOrExpiry ==
    [][/\ \A task_id \in TaskIds :
              DeleteTask(task_id) /\ response'.code = 200 =>
                  cache_key \notin DOMAIN analytics_cache'
       /\ /\ GetTaskStatistics
          /\ \/ cache_key \notin DOMAIN analytics_cache
             \/ clock >= cache_expiry[cache_key]
          => /\ response'.body[1].total = Cardinality(DOMAIN tasks)
             /\ cache_key \in DOMAIN analytics_cache'
             /\ analytics_cache'[cache_key] = response'.body[1]
             /\ cache_expiry'[cache_key] = clock + CacheTTL]_vars

\* C9 witness: after a Delete, statistics were recomputed from a store
\* that still holds tasks, and a new window was started.
C9_Witness ==
    /\ response.op = "stats"
    /\ SomeDeleted
    /\ tasks # EmptyDict
    /\ clock > 0 /\ clock < CacheTTL
    /\ cache_expiry[cache_key] = clock + CacheTTL
    /\ response.body[1].total = Cardinality(DOMAIN tasks)

\* C10: a bulk create of more than 100 items fails with the limit error
\* and leaves the stored tasks and the id counter unchanged.
C10_BulkLimitRejectsWholeBatch ==
    [][\A tasks_data \in BulkBodies :
          /\ response'.op = "bulk" /\ Len(tasks_data) > BulkLimit
          /\ BulkCreateTasks(tasks_data)
          =>
              /\ response'.code = 400
              /\ response'.detail = "Maximum 100 tasks per bulk operation"
              /\ UNCHANGED <<tasks, task_counter>>]_vars

\* C10 witness: an oversized batch was rejected by a store holding tasks.
C10_Witness ==
    /\ response.op = "bulk" /\ response.code = 400
    /\ response.detail = "Maximum 100 tasks per bulk operation"
    /\ tasks # EmptyDict

\* the dependencies of item j of a batch are valid: each is a stored task's
\* id or the id an earlier item of the batch is assigned
ValidBatchItem(tasks_data, j) ==
    \A d \in 1..Len(TaskCreate(tasks_data[j]).dependencies) :
        LET dep == TaskCreate(tasks_data[j]).dependencies[d]
        IN  \/ dep \in DOMAIN tasks
            \/ \E i \in 1..(j - 1) : dep = task_counter + i

\* C11: a bulk create of n <= 100 valid items succeeds, returns the n
\* consecutive ids after the counter in input order, stores item i under
\* the i-th id and nothing else; an item may depend on an earlier item of
\* the same batch.
C11_BulkCreatesInOrder ==
    [][\A tasks_data \in BulkBodies :
          /\ response'.op = "bulk"
          /\ Len(tasks_data) <= BulkLimit
          /\ \A j \in 1..Len(tasks_data) : ValidBatchItem(tasks_data, j)
          /\ BulkCreateTasks(tasks_data)
          => /\ response'.code = 200
             /\ Len(response'.body) = Len(tasks_data)
             /\ \A i \in 1..Len(tasks_data) :
                    /\ response'.body[i] = task_counter + i
                    /\ response'.body[i] \in DOMAIN tasks'
                    /\ tasks'[response'.body[i]].id = response'.body[i]
                    /\ tasks'[response'.body[i]].dependencies
                           = TaskCreate(tasks_data[i]).dependencies
                    /\ tasks'[response'.body[i]].category
                           = tasks_data[i].category
             /\ DOMAIN tasks' = DOMAIN tasks
                    \cup {task_counter + i : i \in 1..Len(tasks_data)}
             /\ \A k \in DOMAIN tasks : tasks'[k] = tasks[k]
             /\ task_counter' = task_counter + Len(tasks_data)]_vars

\* C11 witness: a batch succeeded whose second item depends on the id its
\* first item was assigned.
C11_Witness ==
    /\ response.op = "bulk" /\ response.code = 200
    /\ Len(response.body) = 2
    /\ response.body[2] \in DOMAIN tasks
    /\ tasks[response.body[2]].dependencies = <<response.body[1]>>
    /\ response.body[1] = response.body[2] - 1

\* C12: an Update of a stored task that supplies dependencies succeeds
\* (and stores the list) exactly when every id in it is a stored task's id
\* or the task's own id, and otherwise fails with the dependency error; a
\* Create naming the id the new task would receive fails with that error.
C12_UpdateDependencyValidation ==
    [][/\ \A task_id \in TaskIds, update_data \in UpdateBodies :
              /\ UpdateTask(task_id, update_data)
              /\ task_id \in DOMAIN tasks
              /\ "dependencies" \in DOMAIN update_data
              => IF \A i \in 1..Len(update_data.dependencies) :
                        \/ update_data.dependencies[i] \in DOMAIN tasks
                        \/ update_data.dependencies[i] = task_id
                 THEN /\ response'.code = 200
                      /\ tasks'[task_id].dependencies
                             = update_data.dependencies
                 ELSE /\ response'.code = 400
                      /\ response'.detail = "Dependency task not found"
                      /\ tasks' = tasks
       /\ \A body \in CreateBodies :
              /\ CreateTask(body)
              /\ Contains(TaskCreate(body).dependencies, task_counter + 1)
              => /\ response'.code = 400
                 /\ response'.detail = "Dependency task not found"
                 /\ task_counter + 1 \notin DOMAIN tasks']_vars

\* C13: a successful Update changes, on the target task, only the supplied
\* fields, updated_at, checksum and (on first completion) completed_at; id
\* and created_at stay, omitted fields keep their values, and no other
\* task nor the id counter changes.
C13_UpdateFrame ==
    [][\A task_id \in TaskIds, update_data \in UpdateBodies :
          /\ response'.op = "update" /\ response'.code = 200
          /\ UpdateTask(task_id, update_data)
          =>
              LET old      == tasks[task_id]
                  new      == tasks'[task_id]
                  supplied == DOMAIN update_data \cap TaskUpdateFields
              IN  /\ DOMAIN tasks' = DOMAIN tasks
                  /\ \A k \in DOMAIN tasks \ {task_id} : tasks'[k] = tasks[k]
                  /\ task_counter' = task_counter
                  /\ DOMAIN new = DOMAIN old
                  /\ new.id = task_id /\ new.id = old.id
                  /\ new.created_at = old.created_at
                  /\ \A f \in supplied : new[f] = update_data[f]
                  /\ \A f \in DOMAIN old \ supplied :
                         f \notin {"updated_at", "checksum", "completed_at"}
                             => new[f] = old[f]
                  /\ new.updated_at = clock
                  /\ new.completed_at # old.completed_at =>
                         /\ old.completed_at = None
                         /\ "status" \in supplied
                         /\ update_data.status = "completed"]_vars

\* C13 witness: an Update whose body also named id and created_at renamed
\* one of two stored tasks.
C13_Witness ==
    /\ response.op = "update" /\ response.code = 200
    /\ response.body[1].title = "Renamed"
    /\ response.body[1].id \in DOMAIN tasks
    /\ tasks[response.body[1].id] = response.body[1]
    /\ response.body[1].updated_at > response.body[1].created_at
    /\ Cardinality(DOMAIN tasks) >= 2

\* the query q with its offset and limit set
Page(q, offset, limit) ==
    [f \in DOMAIN q \cup {"offset", "limit"} |->
        IF f = "offset" THEN offset ELSE IF f = "limit" THEN limit ELSE q[f]]

\* C14: pagination law.  Over the current store and any fixed filters and
\* sort, the page (0, n) followed by the page (n, m) is the page
\* (0, n + m); a page has at most limit entries; an offset at or beyond
\* the filtered length gives the empty sequence and no error.
C14_PaginationLaw ==
    \A q \in ListQueries : query_valid(q) =>
        \A n, m \in 1..MaxTasks :
            LET first == get_tasks(tasks, Page(q, 0, n))
                next  == get_tasks(tasks, Page(q, n, m))
                both  == get_tasks(tasks, Page(q, 0, n + m))
                all   == get_tasks(tasks, Page(q, 0, LimitMax))
                past  == get_tasks(tasks, Page(q, Len(all.body), m))
            IN  /\ first.code = 200 /\ next.code = 200 /\ both.code = 200
                /\ first.body \o next.body = both.body
                /\ Len(first.body) <= n /\ Len(next.body) <= m
                /\ past.code = 200 /\ past.body = <<>>

\* C15: a list sorted by updated_at succeeds in every reachable store and
\* returns every task with a null updated_at as the minimum: before the
\* updated tasks ascending, after them descending.
C15_SortByUpdatedAt ==
    [][\A q \in ListQueries :
          /\ response'.op = "list"
          /\ ListTasks(q)
          /\ DOMAIN q \subseteq {"sort_by", "order"}
          /\ Supplied(q, "sort_by", "created_at") = "updated_at"
          => /\ response'.code = 200
             /\ Len(response'.body) = Cardinality(DOMAIN tasks)
             /\ \A i, j \in 1..Len(response'.body) :
                    /\ i < j
                    /\ response'.body[IF q.order = "asc" THEN j ELSE i]
                           .updated_at = None
                    => response'.body[IF q.order = "asc" THEN i ELSE j]
                           .updated_at = None]_vars

\* a task passes the filters of q as the caller states them: equality on
\* each supplied field, and one of its tags in the supplied tag list
PassesFilters(task, q) ==
    /\ \A f \in DOMAIN q \cap {"status", "priority", "category", "assignee"} :
           task[f] = q[f]
    /\ "tags" \in DOMAIN q => any_tag(task, q.tags)

\* C16: without offset and limit, a list returns exactly the stored tasks
\* that pass every supplied filter, each once.
C16_FilterExact ==
    [][\A q \in ListQueries :
          /\ response'.op = "list"
          /\ ListTasks(q)
          /\ query_valid(q)
          /\ "offset" \notin DOMAIN q /\ "limit" \notin DOMAIN q
          => /\ response'.code = 200
             /\ {response'.body[i] : i \in 1..Len(response'.body)}
                    = {tasks[k] : k \in {x \in DOMAIN tasks :
                                            PassesFilters(tasks[x], q)}}
             /\ \A i, j \in 1..Len(response'.body) :
                    i # j => response'.body[i].id # response'.body[j].id]_vars

\* the tasks whose value of the field is not null
NonNull(field) == {k \in DOMAIN tasks : tasks[k][field] # None}

\* the mean of the field over the tasks where it is not null, in
\* hundredths, 0 when there is none
MeanOfNonNull(field) ==
    IF NonNull(field) = {} THEN 0
    ELSE round2(sum_of(tasks, NonNull(field), field),
                Cardinality(NonNull(field)))

\* C17: the averages of a freshly computed summary are taken over the
\* tasks whose value is not null, a value of 0 counted in the divisor.
C17_AveragesOverNonNull ==
    [][/\ GetTaskStatistics
       /\ ~cache_hit(analytics_cache, cache_expiry, clock)
       => /\ response'.body[1].average_estimated_hours
                 = MeanOfNonNull("estimated_hours")
          /\ response'.body[1].average_actual_hours
                 = MeanOfNonNull("actual_hours")]_vars

\* C18: the health snapshot succeeds in every reachable store, reporting
\* healthy and the number of stored tasks.
C18_HealthSnapshotSucceeds ==
    [][response'.op = "health" /\ HealthCheck =>
          /\ response'.code = 200
          /\ response'.body[1].status = "healthy"
          /\ response'.body[1].total_tasks = Cardinality(DOMAIN tasks)]_vars

\* C20: every stored task has at most 10 tags.
C20_AtMostTenTags ==
    \A k \in DOMAIN tasks : Len(tasks[k].tags) <= MaxTags

\* an Update in slot o has written part of its changes and not finished
PartialUpdate(o) == handlers[o].op = "update" /\ handlers[o].dirty

\* a Delete in slot o has pruned a dependent or removed its task and not
\* finished
HalfDelete(o) == handlers[o].op = "delete" /\ handlers[o].dirty

\* C19: with requests in flight at once, mutations are serialized.  The
\* id a Create stores its task under is its task's id and is not yet a
\* key of the store (no two Creates obtain one id), and no GetTask or
\* ListTasks runs while an Update has applied part of its changes or a
\* Delete is between its first write and its end.
C19_MutationsSerialized ==
    [][\A s \in Slots :
          /\ /\ handlers[s].op \in {"create", "bulk"}
             /\ handlers[s].pc = "store"
             /\ handlers'[s] # handlers[s]
             /\ StepCreate(s)
             => /\ handlers[s].local.id = task_counter
                /\ task_counter \notin DOMAIN tasks
                /\ \A o \in Slots \ {s} :
                       handlers[o].op \in {"create", "bulk"} =>
                           handlers[o].pc \in {"start", "validate"}
          /\ /\ handlers[s].op \in {"get", "list"}
             /\ handlers'[s].op = "idle"
             /\ response'.op = handlers[s].op
             /\ StepRead(s)
             => \A o \in Slots \ {s} :
                    ~PartialUpdate(o) /\ ~HalfDelete(o)]_vars

\* C19 witness: a GetTask was answered with a completely updated task
\* while another Update of that task was in flight, its handler not yet
\* entered.
C19_Witness ==
    /\ response.op = "get" /\ response.code = 200
    /\ response.body[1].title = "Renamed"
    /\ response.body[1].completed_at # None
    /\ \E o \in Slots :
           /\ handlers[o].op = "update"
           /\ handlers[o].pc = "start"
           /\ handlers[o].task_id = response.body[1].id

\* the first item of the batch that fails dependency validation in the
\* store its predecessors leave (0 when every item passes)
FirstFailing(tasks_data) ==
    IF \A j \in 1..Len(tasks_data) : ValidBatchItem(tasks_data, j)
    THEN 0
    ELSE CHOOSE k \in 1..Len(tasks_data) :
             /\ ~ValidBatchItem(tasks_data, k)
             /\ \A j \in 1..(k - 1) : ValidBatchItem(tasks_data, j)

\* C22: when item k of a bulk create of at most 100 items is the first to
\* fail dependency validation, the call fails with the dependency error,
\* items 1..k-1 stay stored under the ids they were assigned, items k..
\* are not created, and the id counter keeps the k-1 ids consumed: nothing
\* is rolled back.
C22_BulkPartialFailure ==
    [][\A tasks_data \in BulkBodies :
          /\ response'.op = "bulk"
          /\ Len(tasks_data) <= BulkLimit
          /\ FirstFailing(tasks_data) # 0
          /\ BulkCreateTasks(tasks_data)
          => LET k == FirstFailing(tasks_data)
             IN  /\ response'.code = 400
                 /\ response'.detail = "Dependency task not found"
                 /\ DOMAIN tasks' = DOMAIN tasks
                        \cup {task_counter + i : i \in 1..(k - 1)}
                 /\ \A i \in 1..(k - 1) :
                        /\ tasks'[task_counter + i].id = task_counter + i
                        /\ tasks'[task_counter + i].category
                               = tasks_data[i].category
                        /\ tasks'[task_counter + i].dependencies
                               = TaskCreate(tasks_data[i]).dependencies
                 /\ \A j \in DOMAIN tasks : tasks'[j] = tasks[j]
                 /\ task_counter' = task_counter + (k - 1)]_vars

\* C22 witness: a bulk create failed on a dependency while the task its
\* first item created, holding the newest id, is stored.
C22_Witness ==
    /\ response.op = "bulk" /\ response.code = 400
    /\ response.detail = "Dependency task not found"
    /\ task_counter \in DOMAIN tasks
    /\ tasks[task_counter].created_at = clock
    /\ tasks[task_counter].updated_at = None
    /\ tasks[task_counter].dependencies = <<>>

\* every stored task whose status is completed has a completion stamp
CompletedAreStamped ==
    \A k \in DOMAIN tasks :
        tasks[k].status = "completed" => tasks[k].completed_at # None

\* C23: in every reachable state a stored task whose status is completed
\* has a non-null completed_at; a task is created pending and unstamped,
\* and it becomes completed only through a successful Update supplying
\* status completed, which leaves the task stamped (with the time of the
\* update when it was unstamped before).
C23_CompletedImpliesStamped ==
    /\ []CompletedAreStamped
    /\ [][/\ \A new \in DOMAIN tasks' \ DOMAIN tasks :
                 tasks'[new].status = "pending"
          /\ \A new \in DOMAIN tasks' \ DOMAIN tasks :
                 tasks'[new].completed_at = None
          /\ \A id \in DOMAIN tasks \cap DOMAIN tasks' :
                 tasks[id].status # "completed"
                 /\ tasks'[id].status = "completed"
                 => /\ \E update_data \in UpdateBodies :
                           /\ UpdateTask(id, update_data)
                           /\ "status" \in DOMAIN update_data
                           /\ update_data.status = "completed"
                    /\ response'.code = 200
                    /\ tasks'[id].completed_at # None
                    /\ tasks[id].completed_at = None
                           => tasks'[id].completed_at = clock]_vars

\* C23 witness: an Update has just completed one stored task, stamping it
\* with the time of the update, while another stored task is still
\* pending and unstamped.
C23_Witness ==
    /\ response.op = "update" /\ response.code = 200
    /\ response.body[1].status = "completed"
    /\ response.body[1].id \in DOMAIN tasks
    /\ tasks[response.body[1].id].status = "completed"
    /\ tasks[response.body[1].id].completed_at = clock
    /\ \E k \in DOMAIN tasks :
           tasks[k].status = "pending" /\ tasks[k].completed_at = None

\* C21: in every reachable state every stored task's status is one of
\* pending, in_progress, completed, blocked, cancelled, never null, also
\* after an Update that supplies status explicitly as null.
C21_StatusNeverNull ==
    \A k \in DOMAIN tasks : tasks[k].status \in TaskStatus
====
